---- MODULE Spec2Model ----
(***************************************************************************)
(* A model of the WIFF recording container (cmlburnett/wiff).              *)
(*                                                                         *)
(* Spec      : the Recording orchestrator (wiff.py) with its WaveBlocks    *)
(*             (wiffwave.py), AnnoBlocks (wiffanno.py) and the file table  *)
(*             of the InfoBlock (wiffinfo.py).                             *)
(* SpecChunk : one backing file as a sequence of 4096-byte pages, with the *)
(*             chunk relocation algorithm (wiffchunk.py ResizeChunk) and   *)
(*             the WaveBlock frame_space setter that drives it.            *)
(***************************************************************************)
EXTENDS Integers, Sequences, FiniteSets, TLC

\* ------------------------------------------------------------------------
\* Program constants

PageSize == 4096
ChunkHeaderLen == 24
WaveHeaderLen == 48
BitfieldWidth == 256

\* ------------------------------------------------------------------------
\* Bounds of the model

MaxFiles == 2
MaxChunks == 3
MaxFrames == 3
MaxBatch == 2
MaxAnnos == 2
MaxPages == 6

\* ------------------------------------------------------------------------
\* State

VARIABLES
    files,                 \* InfoBlock file table: sequence of FileEntry
    chunks,                \* WIFF._chunks: per file, the chunk objects in order
    fsize,                 \* per file, the length of the backing file in bytes
    num_frames,            \* InfoBlock.num_frames
    num_annotations,       \* InfoBlock.num_annotations
    current_file,          \* WIFF._current_file (0 is None)
    current_segment,       \* WIFF._current_segment (<<>> is None)
    current_annotations,   \* WIFF._current_annotations (<<>> is None)
    last,                  \* history: the last call and how it ended
    pages,                 \* SpecChunk: the pages of one backing file
    objs,                  \* SpecChunk: the offsets the chunk objects were made at
    clast,                 \* SpecChunk: the last call and how it ended
    info,                  \* SpecInfo: the index fields and jump tables of the InfoBlock
    disk,                  \* SpecInfo: the file a call of new names, and how the call ended
    wave,                  \* SpecWave: the channels and the strides of one WaveBlock
    header,                \* SpecCodec: the bytes of one chunk header and what was written
    bitvec,                \* SpecCodec: one presence vector, its bits and bytes
    step                   \* SpecOrder: the fields an append writes, and where the call is

vars == <<files, chunks, fsize, num_frames, num_annotations, current_file,
          current_segment, current_annotations, last, pages, objs, clast, info, disk, wave, header, bitvec, step>>

recvars == <<files, chunks, fsize, num_frames, num_annotations, current_file,
             current_segment, current_annotations, last>>

chunkvars == <<pages, objs, clast>>

infovars == <<info, disk>>

wavevars == <<wave>>

codecvars == <<header, bitvec>>
ordervars == <<step>>

None == <<>>

\* ------------------------------------------------------------------------
\* The channel catalog given to new(): channels 0 and 1 are the 12-bit leads
\* of the test-suite, channel 2 is a 9-bit channel, all others are 64-bit.

Catalog == [c \in 0..(BitfieldWidth - 1) |->
              IF c \in {0, 1} THEN 12 ELSE IF c = 2 THEN 9 ELSE 64]

\* Channel lists a caller passes to new_segment
WideChannels == [i \in 1..(BitfieldWidth - 3) |-> i + 2]

ChannelLists == { <<0, 1>>, <<1, 0>>, <<2>>, WideChannels }

\* bitfield.clear(255); bitfield.set(*indices): bit -> 0 or 1, 256 bits wide
BitfieldSet(indices) ==
    [b \in 0..(BitfieldWidth - 1) |->
        IF \E i \in 1..Len(indices) : indices[i] = b THEN 1 ELSE 0]

\* bitfield.set_indices(): the indices of the bits that are not 0, ascending
RECURSIVE SetIndicesIn(_, _, _)
SetIndicesIn(bitfield, lo, hi) ==
    IF lo > hi THEN <<>>
    ELSE IF lo = hi THEN (IF bitfield[lo] # 0 THEN <<lo>> ELSE <<>>)
    ELSE LET mid == (lo + hi) \div 2
         IN  SetIndicesIn(bitfield, lo, mid) \o SetIndicesIn(bitfield, mid + 1, hi)

SetIndices(bitfield) == SetIndicesIn(bitfield, 0, BitfieldWidth - 1)

\* WIFFWAVE.initheader then WIFFWAVE.channels: what a block reads back for each
\* channel list a caller can pass, tabulated once
HeaderChannels == [chans \in ChannelLists |-> SetIndices(BitfieldSet(chans))]

\* ------------------------------------------------------------------------
\* Byte widths

\* ceil(bits / 8)
CeilBytes(b) == (b + 7) \div 8

\* "Expand to full bytes": c.bit.val + (c.bit.val % 8), a size in bits
ChanSizeBits(b) == b + (b % 8)

\* WIFFWAVE.channel_sizes: the size in bits of the i-th channel of a block
channel_sizes(chans, i) == ChanSizeBits(Catalog[chans[i]])

\* sum(self.channel_sizes) over the channels lo..hi of the block
RECURSIVE SumChannelSizes(_, _, _)
SumChannelSizes(chans, lo, hi) ==
    IF lo > hi THEN 0
    ELSE IF lo = hi THEN channel_sizes(chans, lo)
    ELSE LET mid == (lo + hi) \div 2
         IN  SumChannelSizes(chans, lo, mid) + SumChannelSizes(chans, mid + 1, hi)

\* WIFFWAVE.frame_size: sum(self.channel_sizes)//8, tabulated once for the
\* channel lists a block can hold
FrameSizes ==
    [chans \in { HeaderChannels[cl] : cl \in ChannelLists } |->
        SumChannelSizes(chans, 1, Len(chans)) \div 8]

frame_size(chans) == FrameSizes[chans]

\* ------------------------------------------------------------------------
\* Chunk objects

NewChunk(magic, offset, size) ==
    [magic |-> magic, offset |-> offset, size |-> size,
     channels |-> <<>>, fidx_start |-> 0, fidx_end |-> 0, records |-> <<>>,
     aidx_start |-> 0, aidx_end |-> 0, fidx_first |-> 0, fidx_last |-> 0,
     num_annotations |-> 0, annotations |-> <<>>]

Chunk(ref) == chunks[ref[1]][ref[2]]

\* WIFF._GetChunks(magic): files in creation order, chunks in file order
RECURSIVE RefsOfFile(_, _, _)
RefsOfFile(magic, f, i) ==
    IF i > Len(chunks[f]) THEN <<>>
    ELSE (IF chunks[f][i].magic = magic THEN << <<f, i>> >> ELSE <<>>)
         \o RefsOfFile(magic, f, i + 1)

RECURSIVE RefsFrom(_, _)
RefsFrom(magic, f) ==
    IF f > Len(chunks) THEN <<>>
    ELSE RefsOfFile(magic, f, 1) \o RefsFrom(magic, f + 1)

_GetWAVE == RefsFrom("WIFFWAVE", 1)
_GetANNO == RefsFrom("WIFFANNO", 1)

RECURSIVE NumChunksFrom(_)
NumChunksFrom(f) == IF f > Len(chunks) THEN 0 ELSE Len(chunks[f]) + NumChunksFrom(f + 1)

NumChunks == NumChunksFrom(1)

\* ------------------------------------------------------------------------
\* WaveBlock

\* WIFFWAVE.frame_space (getter); a zero frame size divides by zero
frame_space(size, fsz) == (size - ChunkHeaderLen - WaveHeaderLen) \div fsz

\* WIFFWAVE.frame_space_available
frame_space_available(c) ==
    frame_space(c.size, frame_size(c.channels)) - (c.fidx_end - c.fidx_start)

\* The record area of a block: slot -> record; 0 stands for bytes never written
Zero == 0
Beyond == -1

ReadSlot(c, off) ==
    IF off < Len(c.records) THEN c.records[off + 1]
    ELSE IF frame_size(c.channels) > 0
            /\ off < frame_space(c.size, frame_size(c.channels)) THEN Zero
    ELSE Beyond

RECURSIVE WriteSlots(_, _, _)
WriteSlots(recs, off, toks) ==
    IF toks = <<>> THEN recs
    ELSE LET padded == [i \in 1..(IF off + 1 > Len(recs) THEN off + 1 ELSE Len(recs)) |->
                           IF i <= Len(recs) THEN recs[i] ELSE Zero]
         IN  WriteSlots([padded EXCEPT ![off + 1] = Head(toks)], off + 1, Tail(toks))

\* ------------------------------------------------------------------------
\* Inputs of add_frames: a record is one byte-sequence length per sample; its
\* bytes are its serial number, so the n-th record ever stored (n from 1) reads
\* back as n and no two records are alike

\* A caller builds a record for a block in one of three ways: "exact" gives
\* every channel ceil(bit/8) bytes, "long" gives the first channel one byte
\* more, "short" leaves out the last channel's sample
RecordShapes == {"exact", "long", "short"}

Batches == UNION { [1..n -> RecordShapes] : n \in 0..MaxBatch }

\* The number of samples of a record and the byte length of its i-th sample
NumSamples(shape, chans) == IF shape = "short" THEN Len(chans) - 1 ELSE Len(chans)

SampleLen(shape, chans, i) ==
    CeilBytes(Catalog[chans[i]]) + (IF shape = "long" /\ i = 1 THEN 1 ELSE 0)

\* The rule of the format: one byte-sequence per channel, ceil(bit/8) bytes each
WellFormed(frames) == \A j \in 1..Len(frames) : frames[j] = "exact"

\* ------------------------------------------------------------------------
\* FileEntry updates

FileEntry(name, fs, fe, as, ae) ==
    [name |-> name, fidx_start |-> fs, fidx_end |-> fe, aidx_start |-> as, aidx_end |-> ae]

\* WIFFINFO.get_file_by_name; file names are 1, 2, ... in creation order
get_file_by_name(fname) == CHOOSE i \in 1..Len(files) : files[i].name = fname

\* WIFFWAVE.fidx_start setter: the header field, and the FileEntry only if earlier
SetFidxStart(fs, fname, v) ==
    [fs EXCEPT ![get_file_by_name(fname)].fidx_start =
        IF v < @ THEN v ELSE @]

\* WIFFWAVE.fidx_end setter: the header field and the FileEntry
SetFidxEnd(fs, fname, v) ==
    [fs EXCEPT ![get_file_by_name(fname)].fidx_end = v]

Call(op, err) == [op |-> op, err |-> err]

\* ------------------------------------------------------------------------
\* WIFF.new: the state after construction

Init ==
    /\ files = << FileEntry(1, 0, 0, 0, 0) >>
    /\ chunks = << << NewChunk("WIFFINFO", 0, PageSize) >> >>
    /\ fsize = << PageSize >>
    /\ num_frames = 0
    /\ num_annotations = 0
    /\ current_file = 0
    /\ current_segment = None
    /\ current_annotations = None
    /\ last = Call("new", "ok")
    /\ pages = <<>>
    /\ objs = <<>>
    /\ clast = Call("none", "ok")
    /\ info = None
    /\ disk = None
    /\ wave = None
    /\ header = None
    /\ bitvec = None
    /\ step = None

\* ------------------------------------------------------------------------
\* WIFF.set_file

set_file(fname) ==
    /\ IF fname \in 1..Len(files)
       THEN /\ current_file' = fname
            /\ current_segment' = None
            /\ last' = Call("set_file", "ok")
       ELSE /\ UNCHANGED <<current_file, current_segment>>
            /\ last' = Call("set_file", "KeyError")
    /\ UNCHANGED <<files, chunks, fsize, num_frames, num_annotations,
                   current_annotations, chunkvars, infovars, wavevars, codecvars, ordervars>>

\* WIFF.set_segment
set_segment(ref) ==
    /\ current_file' = ref[1]
    /\ current_segment' = ref
    /\ last' = Call("set_segment", "ok")
    /\ UNCHANGED <<files, chunks, fsize, num_frames, num_annotations,
                   current_annotations, chunkvars, infovars, wavevars, codecvars, ordervars>>

\* info_struct.num_files: the counter of the file jump table, one per entry
num_files == Len(files)

\* An add_file that registers the file with an empty range at index 0
add_file_at_zero(fs, fname, fidx_start, fidx_end, aidx_start, aidx_end) ==
    Append(fs, FileEntry(fname, 0, 0, 0, 0))

\* WIFFINFO.add_file
add_file(fs, fname, fidx_start, fidx_end, aidx_start, aidx_end) ==
    Append(fs, FileEntry(fname, fidx_start, fidx_end, aidx_start, aidx_end))

\* WIFF.new_file(fname, force); exists: a file of that name is on disk.
\* With force the existing file is truncated to no bytes, and _filewrap then
\* maps it as it is: mmap refuses an empty file with a ValueError
new_file(fname, exists, force) ==
    /\ IF fname \in 1..Len(files) \/ (exists /\ ~force)
       THEN /\ UNCHANGED <<files, chunks, fsize, current_file, current_segment>>
            /\ last' = Call("new_file", "Exception")
       ELSE IF exists
       THEN /\ UNCHANGED <<files, chunks, fsize, current_file, current_segment>>
            /\ last' = Call("new_file", "ValueError")
       ELSE /\ fname = Len(files) + 1
            /\ chunks' = Append(chunks, <<>>)
            /\ fsize' = Append(fsize, PageSize)
            /\ current_file' = fname
            /\ current_segment' = None
            /\ files' = add_file(files, fname, num_frames, num_frames,
                                 num_annotations, num_annotations)
            /\ last' = Call("new_file", "ok")
    /\ UNCHANGED <<num_frames, num_annotations, current_annotations, chunkvars, infovars, wavevars, codecvars, ordervars>>

\* Where the next chunk of a file begins: the end of its last chunk
NextOffset(cs) == IF Len(cs) = 0 THEN 0 ELSE cs[Len(cs)].offset + cs[Len(cs)].size

\* WIFF.new_segment with WIFFWAVE.initchunk and WIFFWAVE.initheader.  The
\* presence vector is taken as stored in the layout of the file format; how
\* bitfield.to_bytes ends is the matter of SpecCodec
new_segment(chans) ==
    /\ NumChunks < MaxChunks
    /\ IF current_file = 0
       THEN /\ UNCHANGED <<files, chunks, fsize, current_segment>>
            /\ last' = Call("new_segment", "ValueError")
       ELSE LET f == current_file
                cs == chunks[f]
                w == [NewChunk("WIFFWAVE", NextOffset(cs), PageSize) EXCEPT
                         !.channels = HeaderChannels[chans],
                         !.fidx_start = num_frames,
                         !.fidx_end = num_frames]
            IN  /\ fsize' = [fsize EXCEPT ![f] = IF Len(cs) = 0 THEN @ ELSE @ + PageSize]
                /\ chunks' = [chunks EXCEPT ![f] = Append(cs, w)]
                /\ files' = SetFidxEnd(SetFidxStart(files, f, num_frames), f, num_frames)
                /\ current_segment' = <<f, Len(cs) + 1>>
                /\ last' = Call("new_segment", "ok")
    /\ UNCHANGED <<num_frames, num_annotations, current_file, current_annotations, chunkvars, infovars, wavevars, codecvars, ordervars>>

\* WIFF.new_annotations with WIFFANNO.initchunk and WIFFANNO.initheader
new_annotations ==
    /\ NumChunks < MaxChunks
    /\ IF current_file = 0
       THEN /\ UNCHANGED <<chunks, fsize, current_annotations>>
            /\ last' = Call("new_annotations", "ValueError")
       ELSE LET f == current_file
                cs == chunks[f]
                w == NewChunk("WIFFANNO", NextOffset(cs), 2 * PageSize)
            IN  /\ fsize' = [fsize EXCEPT ![f] =
                                (IF Len(cs) = 0 THEN @ ELSE @ + PageSize) + PageSize]
                /\ chunks' = [chunks EXCEPT ![f] = Append(cs, w)]
                /\ current_annotations' = <<f, Len(cs) + 1>>
                /\ last' = Call("new_annotations", "ok")
    /\ UNCHANGED <<files, num_frames, num_annotations, current_file, current_segment, chunkvars, infovars, wavevars, codecvars, ordervars>>

\* ------------------------------------------------------------------------
\* WIFF.add_frames -> WIFFWAVE.add_frames

Toks(frames, frame_num) == [j \in 1..Len(frames) |-> frame_num + j]

\* The checks of add_frames that reject a call, in the order of the code.
\* wiffwave.py does not import NeedResizeException, so the raise statement of
\* the space check ends in a NameError
AddFramesError(c, frames) ==
    LET chans == c.channels
    IN  IF frame_size(chans) = 0 THEN "ZeroDivisionError"
        ELSE IF frame_space_available(c) < Len(frames) THEN "NameError"
        ELSE IF \E j \in 1..Len(frames) : NumSamples(frames[j], chans) # Len(chans)
             THEN "ValueError"
        ELSE IF \E j \in 1..Len(frames) : \E i \in 1..Len(chans) :
                    channel_sizes(chans, i) # SampleLen(frames[j], chans, i) * 8 THEN "ValueError"
        ELSE "ok"

\* The block after the records are stored and fidx_start / fidx_end are set
AddFramesBlock(c, frames, frame_num) ==
    [c EXCEPT !.records = WriteSlots(c.records, c.fidx_end - c.fidx_start, Toks(frames, frame_num)),
              !.fidx_start = IF frame_num = 0 THEN frame_num ELSE @,
              !.fidx_end = frame_num + Len(frames)]

\* The file table after the fidx_start / fidx_end setters copied to it
AddFramesFiles(fs, fname, frames, frame_num) ==
    SetFidxEnd(IF frame_num = 0 THEN SetFidxStart(fs, fname, frame_num) ELSE fs,
               fname, frame_num + Len(frames))

FramesCall(err, frames, c) ==
    [op |-> "add_frames", err |-> err, k |-> Len(frames),
     wellformed |-> WellFormed(frames),
     avail |-> IF frame_size(c.channels) = 0 THEN 0 ELSE frame_space_available(c)]

add_frames(frames) ==
    /\ num_frames + Len(frames) <= MaxFrames
    /\ IF current_segment = None
       THEN /\ UNCHANGED <<files, chunks, num_frames>>
            /\ last' = Call("add_frames", "AttributeError")
       ELSE LET ref == current_segment
                c == Chunk(ref)
                err == AddFramesError(c, frames)
            IN  IF err # "ok"
                THEN /\ UNCHANGED <<files, chunks, num_frames>>
                     /\ last' = FramesCall(err, frames, c)
                ELSE /\ chunks' = [chunks EXCEPT ![ref[1]][ref[2]] =
                                      AddFramesBlock(c, frames, num_frames)]
                     /\ files' = AddFramesFiles(files, ref[1], frames, num_frames)
                     /\ num_frames' = num_frames + Len(frames)
                     /\ last' = FramesCall("ok", frames, c)
    /\ UNCHANGED <<fsize, num_annotations, current_file, current_segment,
                   current_annotations, chunkvars, infovars, wavevars, codecvars, ordervars>>

\* WIFF.add_frame(*samps): refused without a current segment, else
\* WIFFWAVE.add_frame, which is add_frames of the one frame
add_frame(samps) ==
    IF current_segment = None
    THEN /\ last' = Call("add_frame", "ValueError")
         /\ UNCHANGED <<files, chunks, fsize, num_frames, num_annotations, current_file,
                        current_segment, current_annotations, chunkvars, infovars,
                        wavevars, codecvars, ordervars>>
    ELSE add_frames(<<samps>>)

\* ------------------------------------------------------------------------
\* WIFF.add_annotation -> WIFFANNO.add_annotation

AnnoTypes == {"M", "C"}

\* Frame ranges (start, stop) a caller annotates
FidxRanges == { <<2, 3>>, <<1, 2>> }

Min(a, b) == IF a < b THEN a ELSE b
Max(a, b) == IF a > b THEN a ELSE b

\* An add_annotation that starts from the header as initheader left it
AnnoFirstSkipped(c, fidx) == c

\* The header values add_annotation starts from: a first annotation sets them
AnnoFirst(c, fidx) ==
    IF c.num_annotations = 0
    THEN [c EXCEPT !.aidx_start = 0, !.aidx_end = 0,
                   !.fidx_first = fidx[1], !.fidx_last = fidx[2]]
    ELSE c

\* The block after the record is stored and the header is updated
AddAnnotationBlock(c, typ, fidx) ==
    LET ann_no == c.num_annotations
        b == AnnoFirst(c, fidx)
    IN  [b EXCEPT !.annotations = Append(@, [type |-> typ, fidx_start |-> fidx[1],
                                             fidx_end |-> fidx[2]]),
                  !.fidx_first = Min(b.fidx_first, fidx[1]),
                  !.fidx_last = Max(b.fidx_last, fidx[2]),
                  !.aidx_start = IF ann_no = 0 THEN ann_no ELSE @,
                  !.aidx_end = ann_no + 1,
                  !.num_annotations = ann_no + 1]

\* "Update file stats"
AddAnnotationFiles(fs, fname, b) ==
    [fs EXCEPT ![get_file_by_name(fname)] =
        [@ EXCEPT !.aidx_end = b.aidx_end,
                  !.fidx_start = b.fidx_first,
                  !.fidx_end = b.fidx_last]]

\* An add_annotation that counts the annotation before it looks for the
\* current annotation block
add_annotation_counting(typ, fidx) ==
    /\ num_annotations < MaxAnnos
    /\ current_annotations = None
    /\ num_annotations' = num_annotations + 1
    /\ last' = Call("add_annotation", "ValueError")
    /\ UNCHANGED <<files, chunks, fsize, num_frames, current_file, current_segment,
                   current_annotations, chunkvars, infovars, wavevars, codecvars, ordervars>>

add_annotation(typ, fidx) ==
    /\ num_annotations < MaxAnnos
    /\ IF current_annotations = None
       THEN /\ UNCHANGED <<files, chunks, num_annotations>>
            /\ last' = Call("add_annotation", "ValueError")
       ELSE LET ref == current_annotations
                b == AddAnnotationBlock(Chunk(ref), typ, fidx)
            IN  /\ chunks' = [chunks EXCEPT ![ref[1]][ref[2]] = b]
                /\ num_annotations' = num_annotations + 1
                /\ files' = AddAnnotationFiles(files, ref[1], b)
                /\ last' = Call("add_annotation", "ok")
    /\ UNCHANGED <<fsize, num_frames, current_file, current_segment,
                   current_annotations, chunkvars, infovars, wavevars, codecvars, ordervars>>

\* ------------------------------------------------------------------------
\* WIFF.get_frame (to_int = False): the first WaveBlock the scan does not skip

RECURSIVE get_frame_scan(_, _)
get_frame_scan(refs, index) ==
    IF refs = <<>> THEN [err |-> "KeyError", val |-> Zero, ref |-> None]
    ELSE LET chunk == Chunk(Head(refs))
         IN  IF chunk.fidx_start > index THEN get_frame_scan(Tail(refs), index)
             ELSE IF chunk.fidx_end < index THEN get_frame_scan(Tail(refs), index)
             ELSE [err |-> "ok", val |-> ReadSlot(chunk, index - chunk.fidx_start),
                   ref |-> Head(refs)]

get_frame(index) == get_frame_scan(_GetWAVE, index)

\* ------------------------------------------------------------------------
\* WIFF.iter_frames (to_int = False) and WIFF.get_frames

\* sorted(chunks, key = fidx_start), which keeps the order of equal keys
RECURSIVE InsertByStart(_, _)
InsertByStart(refs, r) ==
    IF refs = <<>> THEN <<r>>
    ELSE IF Chunk(refs[Len(refs)]).fidx_start <= Chunk(r).fidx_start THEN Append(refs, r)
    ELSE Append(InsertByStart(SubSeq(refs, 1, Len(refs) - 1), r), refs[Len(refs)])

RECURSIVE SortByStart(_)
SortByStart(refs) ==
    IF refs = <<>> THEN <<>>
    ELSE InsertByStart(SortByStart(SubSeq(refs, 1, Len(refs) - 1)), refs[Len(refs)])

\* The while loop of iter_frames on one chunk: frames are yielded from i on up
\* to the end of the chunk; once i has passed stop the generator executes
\* raise StopIteration, which Python 3.7 turns into a RuntimeError at the
\* caller.  i is where the loop stopped, frames what was yielded so far
RECURSIVE iter_frames_chunk(_, _, _, _)
iter_frames_chunk(chunk, i, stop, frames) ==
    IF i < chunk.fidx_end
    THEN LET yielded == Append(frames, ReadSlot(chunk, i - chunk.fidx_start))
         IN  IF i + 1 > stop THEN [err |-> "RuntimeError", i |-> i + 1, frames |-> yielded]
             ELSE iter_frames_chunk(chunk, i + 1, stop, yielded)
    ELSE [err |-> "ok", i |-> i, frames |-> frames]

\* The for loop of iter_frames over the sorted chunks
RECURSIVE iter_frames_scan(_, _, _, _)
iter_frames_scan(refs, i, stop, frames) ==
    IF refs = <<>> THEN [err |-> "ok", frames |-> frames]
    ELSE LET chunk == Chunk(Head(refs))
         IN  IF chunk.fidx_start > i THEN iter_frames_scan(Tail(refs), i, stop, frames)
             ELSE LET r == iter_frames_chunk(chunk, i, stop, frames)
                  IN  IF r.err # "ok" THEN [err |-> r.err, frames |-> r.frames]
                      ELSE iter_frames_scan(Tail(refs), r.i, stop, r.frames)

\* list(iter_frames((start, stop))): what was yielded and how the generator ended
iter_frames(start, stop) == iter_frames_scan(SortByStart(_GetWAVE), start, stop, <<>>)

\* WIFF.get_frames((start, stop)): an error of the generator leaves the call
\* without a result
get_frames(start, stop) ==
    LET r == iter_frames(start, stop)
    IN  IF r.err # "ok" THEN [err |-> r.err, start |-> start, stop |-> stop, frames |-> <<>>]
        ELSE [err |-> "ok", start |-> start, stop |-> start + Len(r.frames) - 1,
              frames |-> r.frames]

\* The intervals a caller asks for
FrameIntervals == { <<a, b>> \in (0..MaxFrames) \X (0..(MaxFrames + 1)) : a <= b }

\* ------------------------------------------------------------------------
\* WIFF.get_annotations(typ, fidx): the arguments a caller passes, by their
\* Python type

NoArg == [kind |-> "none"]
StrArg(t) == [kind |-> "str", val |-> t]
IntArg(f) == [kind |-> "int", val |-> f]
IntervalArg(a, b) == [kind |-> "interval", start |-> a, stop |-> b]

TypArgs == {NoArg} \cup { StrArg(t) : t \in AnnoTypes }
FidxIntArgs == {NoArg} \cup { IntArg(f) : f \in 0..(MaxFrames + 1) }
FidxIntervalArgs == { IntervalArg(2, 2), IntervalArg(1, 3), IntervalArg(0, 1) }

\* The isinstance chains that build the filters.  wiff.py does not import
\* types, so an argument that reaches isinstance(_, types.FunctionType) - a
\* typ that is no str, a fidx that is no int - ends the call in a NameError
get_annotations_error(typ, fidx) ==
    IF typ.kind \notin {"none", "str"} THEN "NameError"
    ELSE IF fidx.kind \notin {"none", "int"} THEN "NameError"
    ELSE "ok"

\* A filter that takes fidx_start < fidx for a match
filts_strict(ann, typ, fidx) ==
    /\ typ.kind = "str" => ann.type = typ.val
    /\ fidx.kind = "int" => (ann.fidx_start < fidx.val /\ ann.fidx_end >= fidx.val)

\* all([_(ann) for _ in filts])
filts(ann, typ, fidx) ==
    /\ typ.kind = "str" => ann.type = typ.val
    /\ fidx.kind = "int" => (ann.fidx_start <= fidx.val /\ ann.fidx_end >= fidx.val)

\* "for ann in annos.annotations": the matching records of one block, as
\* <<block, index>>
RECURSIVE get_annotations_block(_, _, _, _)
get_annotations_block(ref, n, typ, fidx) ==
    IF n > Len(Chunk(ref).annotations) THEN <<>>
    ELSE (IF filts(Chunk(ref).annotations[n], typ, fidx) THEN << <<ref, n>> >> ELSE <<>>)
         \o get_annotations_block(ref, n + 1, typ, fidx)

\* "for annos in chunks"
RECURSIVE get_annotations_scan(_, _, _)
get_annotations_scan(refs, typ, fidx) ==
    IF refs = <<>> THEN <<>>
    ELSE get_annotations_block(Head(refs), 1, typ, fidx)
         \o get_annotations_scan(Tail(refs), typ, fidx)

get_annotations(typ, fidx) ==
    LET err == get_annotations_error(typ, fidx)
    IN  [err |-> err,
         val |-> IF err = "ok" THEN get_annotations_scan(_GetANNO, typ, fidx) ELSE <<>>]

\* ------------------------------------------------------------------------
\* The recording

Next ==
    \/ \E fname \in 1..MaxFiles : set_file(fname)
    \/ \E i \in 1..Len(_GetWAVE) : set_segment(_GetWAVE[i])
    \/ \E fname \in 1..MaxFiles : \E exists, force \in BOOLEAN : new_file(fname, exists, force)
    \/ \E chans \in ChannelLists : new_segment(chans)
    \/ new_annotations
    \/ \E frames \in Batches : add_frames(frames)
    \/ \E samps \in RecordShapes : add_frame(samps)
    \/ \E typ \in AnnoTypes : \E fidx \in FidxRanges : add_annotation(typ, fidx)

Spec == Init /\ [][Next]_vars

\* ------------------------------------------------------------------------
\* One backing file as pages of 4096 bytes.  Of a page the model keeps the
\* bytes 8..15 (where a chunk header holds its size), the bytes a WaveBlock
\* header derives its frame size from, the bytes it keeps fidx_start and
\* fidx_end in (as their difference, the number of records stored), and the
\* rest as one value.

Page(size, fsz, len, data) == [size |-> size, fsz |-> fsz, len |-> len, data |-> data]

ZeroPage == Page(0, 0, 0, 0)

ZeroPages(n) == [i \in 1..n |-> ZeroPage]

\* chunk_struct.size for the chunk object at offset off
HeaderSize(pgs, off) == pgs[(off \div PageSize) + 1].size

\* A walk that ends at a header of size 0 and returns what it met so far
RECURSIVE FindChunksPartial(_, _)
FindChunksPartial(pgs, off) ==
    IF off >= Len(pgs) * PageSize THEN [err |-> "ok", chunks |-> <<>>]
    ELSE LET sz == HeaderSize(pgs, off)
         IN  IF sz = 0 THEN [err |-> "ok", chunks |-> <<>>]
             ELSE [err |-> "ok", chunks |-> <<off>> \o FindChunksPartial(pgs, off + sz).chunks]

\* WIFF_chunk.FindChunks: the header offsets of a file, following offset += size
RECURSIVE FindChunksFrom(_, _)
FindChunksFrom(pgs, off) ==
    IF off >= Len(pgs) * PageSize THEN [err |-> "ok", chunks |-> <<>>]
    ELSE LET sz == HeaderSize(pgs, off)
         IN  IF sz = 0 THEN [err |-> "ValueError", chunks |-> <<>>]
             ELSE LET rest == FindChunksFrom(pgs, off + sz)
                  IN  [err |-> rest.err,
                       chunks |-> IF rest.err = "ok" THEN <<off>> \o rest.chunks ELSE <<>>]

FindChunks(pgs) == FindChunksFrom(pgs, 0)

\* A page move that walks the pages lo, lo+1, ..., i in ascending order
RECURSIVE MovePagesAscending(_, _, _, _)
MovePagesAscending(pgs, i, lo, d) ==
    IF i < lo THEN pgs
    ELSE MovePagesAscending([pgs EXCEPT ![lo + d + 1] = pgs[lo + 1]], i, lo + 1, d)

\* The loop of ResizeChunk that moves pages i, i-1, ..., lo up by d pages
RECURSIVE MovePages(_, _, _, _)
MovePages(pgs, i, lo, d) ==
    IF i < lo THEN pgs
    ELSE MovePages([pgs EXCEPT ![i + d + 1] = pgs[i + 1]], i - 1, lo, d)

\* The loop of ResizeChunk that blanks the pages lo .. hi-1
BlankPages(pgs, lo, hi) ==
    [p \in 1..Len(pgs) |-> IF p - 1 >= lo /\ p - 1 < hi THEN ZeroPage ELSE pgs[p]]

\* What ResizeChunk rejects.  The message of the shrink error is formatted
\* from cur and val, which are no names of ResizeChunk, so that raise
\* statement ends in a NameError
ResizeChunkError(pgs, off, new_size) ==
    IF new_size % PageSize # 0 THEN "ValueError"
    ELSE IF HeaderSize(pgs, off) > new_size THEN "NameError"
    ELSE "ok"

\* A resize that writes the size field before it checks anything
ResizeChunkUnchecked(pgs, off, new_size) ==
    [pgs EXCEPT ![(off \div PageSize) + 1].size = new_size]

\* WIFF_chunk.ResizeChunk on the chunk object at offset off: the file afterwards
ResizeChunk(pgs, off, new_size) ==
    LET size == HeaderSize(pgs, off)
        fsz == Len(pgs) * PageSize
        delta == new_size - size
        pg_chk_end == (off + size) \div PageSize
        pg_total == fsz \div PageSize
        grown == pgs \o ZeroPages(delta \div PageSize)
        moved == IF fsz > off + size
                 THEN MovePages(grown, pg_total - 1, pg_chk_end, delta \div PageSize)
                 ELSE grown
        blanked == BlankPages(moved, pg_chk_end, pg_chk_end + (delta \div PageSize))
    IN  IF ResizeChunkError(pgs, off, new_size) # "ok" \/ size = new_size THEN pgs
        ELSE [blanked EXCEPT ![(off \div PageSize) + 1].size = new_size]

\* WIFFWAVE.frame_space setter: the chunk size it asks ResizeChunk for
FrameSpaceNewSize(fsz, val) ==
    LET new_frames_sz == val * fsz
        pgs == IF new_frames_sz % PageSize # 0
               THEN (new_frames_sz \div PageSize) + 1
               ELSE new_frames_sz \div PageSize
    IN  pgs * PageSize

\* ------------------------------------------------------------------------
\* The chunk-level specification: a file of chunks is opened, which makes one
\* chunk object per header found, each holding the offset it was found at
\* (WIFF_chunk.__init__ binds chunk_struct to that offset for good).  Chunks
\* are then resized (directly, or through the frame_space setter) and created
\* through these objects, and the file may be closed and opened again.

ChunkPageCounts == {1, 2}

Layouts == UNION { [1..n -> ChunkPageCounts \X { FrameSizes[c] : c \in DOMAIN FrameSizes }] :
                   n \in 1..(MaxChunks - 1) }

\* The pages of a file whose chunks have the page counts and frame sizes of
\* lay.  Every chunk is full of records; every page carries its own number as
\* contents, and the records happen to be zero where a header has its fields
RECURSIVE LayoutPages(_, _, _)
LayoutPages(lay, k, pgno) ==
    IF k > Len(lay) THEN <<>>
    ELSE LET n == lay[k][1]
         IN  <<Page(n * PageSize, lay[k][2], frame_space(n * PageSize, lay[k][2]), pgno)>>
             \o [j \in 1..(n - 1) |-> Page(0, 0, 0, pgno + j)]
             \o LayoutPages(lay, k + 1, pgno + n)

ChunkCall(op, err, off, old, new, val, before) ==
    [op |-> op, err |-> err, offset |-> off, old_size |-> old, new_size |-> new,
     val |-> val, before |-> before]

InitChunk ==
    /\ files = <<FileEntry(1, 0, 0, 0, 0)>>
    /\ chunks = << <<NewChunk("WIFFINFO", 0, PageSize)>> >>
    /\ fsize = <<PageSize>>
    /\ num_frames = 0
    /\ num_annotations = 0
    /\ current_file = 0
    /\ current_segment = None
    /\ current_annotations = None
    /\ last = Call("new", "ok")
    /\ \E lay \in Layouts : pages = LayoutPages(lay, 1, 1)
    /\ objs = FindChunks(pages).chunks
    /\ clast = ChunkCall("open", "ok", 0, 0, 0, 0, <<>>)
    /\ info = None
    /\ disk = None
    /\ wave = None
    /\ header = None
    /\ bitvec = None
    /\ step = None

\* WIFF.open on the file as it is: FindChunks, then one chunk object per header
Reopen ==
    /\ objs' = FindChunks(pages).chunks
    /\ clast' = ChunkCall("open", FindChunks(pages).err, 0, 0, 0, 0, pages)
    /\ UNCHANGED <<pages, recvars, infovars, wavevars, codecvars, ordervars>>

ResizeDeltas == {0 - PageSize, 0, 1, PageSize, 2 * PageSize}

\* WIFF_chunk.ResizeChunk(chk, new_size) on the chunk object made at offset off
DoResizeChunk(off, new_size) ==
    /\ new_size - HeaderSize(pages, off) <= (MaxPages - Len(pages)) * PageSize
    /\ pages' = ResizeChunk(pages, off, new_size)
    /\ clast' = ChunkCall("ResizeChunk", ResizeChunkError(pages, off, new_size), off,
                          HeaderSize(pages, off), new_size, 0, pages)
    /\ UNCHANGED <<objs, recvars, infovars, wavevars, codecvars, ordervars>>

FrameSpaceDeltas == {0 - 1, 0, 1, 2}

\* WIFFWAVE.frame_space of the chunk object made at offset off; where the
\* header read there names no channel the frame size is 0 and the division
\* fails, which the model shows as Beyond
FrameSpaceAt(pgs, off) ==
    LET hdr == pgs[(off \div PageSize) + 1]
    IN  IF hdr.fsz = 0 THEN Beyond ELSE frame_space(hdr.size, hdr.fsz)

\* WIFFWAVE.frame_space = val on the chunk object made at offset off
SetFrameSpace(off, val) ==
    LET size == HeaderSize(pages, off)
        fsz == pages[(off \div PageSize) + 1].fsz
        cur == FrameSpaceAt(pages, off)
        new_size == FrameSpaceNewSize(fsz, val)
        err == IF fsz = 0 THEN "ZeroDivisionError"
               ELSE IF cur = val THEN "ok"
               ELSE IF val < cur THEN "ValueError"
               ELSE ResizeChunkError(pages, off, new_size)
    IN  /\ new_size - size <= (MaxPages - Len(pages)) * PageSize
        /\ pages' = IF fsz = 0 \/ cur = val \/ val < cur THEN pages
                    ELSE ResizeChunk(pages, off, new_size)
        /\ clast' = ChunkCall("frame_space", err, off, size, new_size, val, pages)
        /\ UNCHANGED <<objs, recvars, infovars, wavevars, codecvars, ordervars>>

\* WIFF.new_segment on a file that has chunks, as it acts on the file: the
\* chunk is placed where the last chunk object says that chunk ends, the
\* file grows by a page, and initchunk and initheader write the 72 header
\* bytes of a block of frame size fsz that holds no record
NewChunkAfterLast(fsz) ==
    LET lastchunk == objs[Len(objs)]
        nextoff == lastchunk + HeaderSize(pages, lastchunk)
        grown == pages \o ZeroPages(1)
        pg == (nextoff \div PageSize) + 1
    IN  /\ Len(objs) > 0
        /\ Len(objs) < MaxChunks
        /\ Len(pages) < MaxPages
        /\ pages' = [grown EXCEPT ![pg] = Page(PageSize, fsz, 0, grown[pg].data)]
        /\ objs' = Append(objs, nextoff)
        /\ clast' = ChunkCall("new_segment", "ok", nextoff, 0, PageSize, 0, pages)
        /\ UNCHANGED <<recvars, infovars, wavevars, codecvars, ordervars>>

NextChunk ==
    \/ Reopen
    \/ \E i \in 1..Len(objs) : \E d \in ResizeDeltas :
         DoResizeChunk(objs[i], HeaderSize(pages, objs[i]) + d)
    \/ \E i \in 1..Len(objs) : \E d \in FrameSpaceDeltas :
         SetFrameSpace(objs[i], Max(FrameSpaceAt(pages, objs[i]), 0) + d)
    \/ \E c \in DOMAIN FrameSizes : NewChunkAfterLast(FrameSizes[c])

SpecChunk == InitChunk /\ [][NextChunk]_vars

\* ------------------------------------------------------------------------
\* The InfoBlock as byte positions: the index fields of info_struct, which
\* count from the start of the struct (24 bytes into the chunk), and its two
\* jump tables, whose entries count from the start of their table.

InfoHeaderLen == 44
DateLen == 22
ChannelHeaderLen == 10
FileHeaderLen == 37
JumpEntryLen == 4
FilesTableLen == 12

\* The lengths of the texts a caller passes
DescLens == {11, 3850, 3880}
ChannelTextLens == {14, 30}
NameLens == {8, 21, 48}

\* WIFFINFO._initchannels: the jump table of channels whose name, unit and
\* comment take the lengths of texts together
RECURSIVE ChannelsTable(_, _)
ChannelsTable(texts, strt) ==
    IF texts = <<>> THEN <<>>
    ELSE LET sz == ChannelHeaderLen + Head(texts)
         IN  << <<strt, strt + sz>> >> \o ChannelsTable(Tail(texts), strt + sz)

\* A text of len characters, all of them ASCII; id tells texts of a length apart
Text(len, id) == [len |-> len, id |-> id]

\* WIFFINFO.initheader up to _initfiles' first two statements: a page-sized
\* chunk with its index fields set and no file in the table, in a file of
\* fsz bytes
InfoInit(desclen, texts, fsz) ==
    LET index_start == InfoHeaderLen
        index_end == index_start + DateLen
        index_description == index_end + DateLen
        index_channels == index_description + desclen
        table == ChannelsTable(texts, JumpEntryLen * Len(texts))
        index_file_start == table[Len(table)][2] + index_channels
    IN  [size |-> PageSize,
         fsize |-> fsz,
         index_start |-> index_start,
         index_end |-> index_end,
         index_description |-> index_description,
         start |-> Text(DateLen, 0),
         end |-> Text(DateLen, 0),
         description |-> Text(desclen, 0),
         index_channels |-> index_channels,
         channels_jumptable |-> table,
         index_file_start |-> index_file_start,
         index_file_end |-> index_file_start,
         files_jumptable |-> <<>>,
         op |-> "initheader",
         val |-> None,
         err |-> "ok"]

\* files.add(ln, start=12, page=12): the entry follows the last one, the
\* first one the 12 bytes of the table
FilesAdd(table, ln) ==
    LET strt == IF table = <<>> THEN FilesTableLen ELSE table[Len(table)][2]
    IN  Append(table, <<strt, strt + ln>>)

\* WIFFINFO.add_file as it acts on the index fields and the files jump
\* table.  wiffinfo.py does not import WIFF_chunk, so the statement that is
\* to grow the chunk ends the call in a NameError.  The fields of the record
\* are written after index_file_end is set; a write past the end of the
\* file is refused by _filewrap.__setitem__
InfoAddFile(namelen) ==
    LET ln == FileHeaderLen + namelen
        cur_size == info.size
        cur_end == info.index_file_end
        table == FilesAdd(info.files_jumptable, ln)
    IN  /\ Len(info.files_jumptable) < FilesTableLen \div JumpEntryLen
        /\ info' = IF cur_end + ln + 4 > cur_size
                   THEN [info EXCEPT !.op = "add_file", !.val = None, !.err = "NameError"]
                   ELSE [info EXCEPT !.op = "add_file", !.val = None,
                                     !.files_jumptable = table,
                                     !.index_file_end = table[Len(table)][2] + info.index_file_start,
                                     !.err = IF ChunkHeaderLen + table[Len(table)][2]
                                                   + info.index_file_start > info.fsize
                                             THEN "NeedResizeException" ELSE "ok"]
        /\ UNCHANGED <<recvars, chunkvars, wavevars, codecvars, ordervars, disk>>

\* The file at the name given to new: len is its length in bytes, Beyond
\* if there is no such file, magic the first 8 bytes of it; op, err and
\* nchans tell the last call, was the length before that call
File(len, magic, op, err, nchans, was) ==
    [len |-> len, magic |-> magic, op |-> op, err |-> err, nchans |-> nchans, was |-> was]

FileLens == {Beyond, PageSize}

ChannelCounts == {BitfieldWidth, BitfieldWidth + 1}

InitInfo ==
    /\ files = <<FileEntry(1, 0, 0, 0, 0)>>
    /\ chunks = << <<NewChunk("WIFFINFO", 0, PageSize)>> >>
    /\ fsize = <<PageSize>>
    /\ num_frames = 0
    /\ num_annotations = 0
    /\ current_file = 0
    /\ current_segment = None
    /\ current_annotations = None
    /\ last = Call("new", "ok")
    /\ pages = <<>>
    /\ objs = <<>>
    /\ clast = Call("none", "ok")
    /\ wave = None
    /\ header = None
    /\ bitvec = None
    /\ step = None
    /\ \E len \in FileLens : disk = File(len, "", "none", "ok", 0, len)
    /\ \E desclen \in DescLens : \E n \in 1..(MaxChunks - 1) :
          \E texts \in [1..n -> ChannelTextLens] :
             /\ info = InfoInit(desclen, texts, PageSize)
             /\ ChunkHeaderLen + info.index_file_start + FilesTableLen <= PageSize

\* WIFF.new_segment or new_annotations on the main file, once it is in the
\* file table, as the InfoBlock sees it: the file grows behind the chunk
InfoFileGrows ==
    /\ Len(info.files_jumptable) > 0
    /\ info.fsize < 2 * PageSize
    /\ info' = [info EXCEPT !.fsize = info.fsize + PageSize,
                            !.op = "new_segment", !.val = None, !.err = "ok"]
    /\ UNCHANGED <<recvars, chunkvars, wavevars, codecvars, ordervars, disk>>

\* WIFF.new(fname, props, force) with nchans channels in props.  An existing
\* file is unlinked under force; _filewrap then creates the file with a page
\* of zeros, initchunk writes the chunk header, and the call of initheader
\* passes 8 arguments where WIFFINFO.initheader takes 9, a TypeError
new(nchans, force) ==
    /\ disk' = IF disk.len # Beyond /\ ~force
               THEN File(disk.len, disk.magic, "new", "Exception", nchans, disk.len)
               ELSE File(PageSize, "WIFFINFO", "new", "TypeError", nchans, disk.len)
    /\ UNCHANGED <<recvars, chunkvars, wavevars, codecvars, ordervars, info>>

\* The file is removed by its owner
unlink ==
    /\ disk.len # Beyond
    /\ disk' = File(Beyond, "", "unlink", "ok", 0, disk.len)
    /\ UNCHANGED <<recvars, chunkvars, wavevars, codecvars, ordervars, info>>

\* What a caller assigns to start and end (a datetime is formatted with
\* DATE_FMT first), and to description
DateVals == {Text(DateLen, 1), Text(DateLen - 1, 1)}
DescVals == { Text(len, 1) : len \in DescLens }

\* A setter that takes every value that fits into the field
FitsField(exist, val) == val.len <= exist

\* The test of the setters: the value is as long as the stored one
SameLength(exist, val) == val.len = exist

\* WIFFINFO.start = val
SetStart(val) ==
    /\ info' = IF SameLength(info.index_end - info.index_start, val)
               THEN [info EXCEPT !.start = val, !.op = "start", !.val = val, !.err = "ok"]
               ELSE [info EXCEPT !.op = "start", !.val = val, !.err = "NotImplementedError"]
    /\ UNCHANGED <<recvars, chunkvars, wavevars, codecvars, ordervars, disk>>

\* WIFFINFO.end = val
SetEnd(val) ==
    /\ info' = IF SameLength(info.end.len, val)
               THEN [info EXCEPT !.end = val, !.op = "end", !.val = val, !.err = "ok"]
               ELSE [info EXCEPT !.op = "end", !.val = val, !.err = "NotImplementedError"]
    /\ UNCHANGED <<recvars, chunkvars, wavevars, codecvars, ordervars, disk>>

\* WIFFINFO.description = val
SetDescription(val) ==
    /\ info' = IF SameLength(info.description.len, val)
               THEN [info EXCEPT !.description = val, !.op = "description", !.val = val,
                                 !.err = "ok"]
               ELSE [info EXCEPT !.op = "description", !.val = val,
                                 !.err = "NotImplementedError"]
    /\ UNCHANGED <<recvars, chunkvars, wavevars, codecvars, ordervars, disk>>

NextInfo ==
    \/ \E namelen \in NameLens : InfoAddFile(namelen)
    \/ InfoFileGrows
    \/ \E val \in DateVals : SetStart(val)
    \/ \E val \in DateVals : SetEnd(val)
    \/ \E val \in DescVals : SetDescription(val)
    \/ \E nchans \in ChannelCounts : \E force \in BOOLEAN : new(nchans, force)
    \/ unlink

SpecInfo == InitInfo /\ [][NextInfo]_vars

\* ------------------------------------------------------------------------
\* One WaveBlock and the three places that derive a frame stride from the
\* bit depths of its channels.  bits is the bit depth of each channel of the
\* block, in channel order.

MaxBits == 64
MaxBlockChannels == 2

RECURSIVE SumSeq(_)
SumSeq(q) == IF q = <<>> THEN 0 ELSE Head(q) + SumSeq(Tail(q))

\* WIFFWAVE.setup: chan_size, the byte width of each channel
SetupChanSize(bits) == [i \in 1..Len(bits) |-> ChanSizeBits(bits[i]) \div 8]

\* WIFFWAVE.setup: self._frame_size, the stride of the serializer
SetupFrameSize(bits) == SumSeq(SetupChanSize(bits))

\* WIFFWAVE.initheader: the record size it gives the records blob
InitheaderFrameSize(bits) == SumSeq([i \in 1..Len(bits) |-> ChanSizeBits(bits[i])]) \div 8

\* WIFFWAVE.frame_size of a block with these channels
FrameSizeOf(bits) == SumSeq([i \in 1..Len(bits) |-> ChanSizeBits(bits[i])]) \div 8

\* WIFFWAVE.initheader(channels, ...) with its call of setup
WaveInitheader(bits) ==
    /\ wave' = [bits |-> bits,
                records_size |-> InitheaderFrameSize(bits),
                chan_size |-> SetupChanSize(bits),
                _frame_size |-> SetupFrameSize(bits)]
    /\ UNCHANGED <<recvars, chunkvars, infovars, codecvars, ordervars>>

\* A chunk object wrapped in WIFFWAVE.__init__: record size 1, no strides yet
InitWave ==
    /\ files = <<FileEntry(1, 0, 0, 0, 0)>>
    /\ chunks = << <<NewChunk("WIFFINFO", 0, PageSize)>> >>
    /\ fsize = <<PageSize>>
    /\ num_frames = 0
    /\ num_annotations = 0
    /\ current_file = 0
    /\ current_segment = None
    /\ current_annotations = None
    /\ last = Call("new", "ok")
    /\ pages = <<>>
    /\ objs = <<>>
    /\ clast = Call("none", "ok")
    /\ info = None
    /\ disk = None
    /\ wave = [bits |-> <<>>, records_size |-> 1, chan_size |-> <<>>, _frame_size |-> 0]
    /\ header = None
    /\ bitvec = None
    /\ step = None

NextWave ==
    \E n \in 1..MaxBlockChannels : \E bits \in [1..n -> 1..MaxBits] : WaveInitheader(bits)

SpecWave == InitWave /\ [][NextWave]_vars

\* ------------------------------------------------------------------------
\* The 24 bytes of a chunk header.  A 64-bit value is kept as four 16-bit
\* limbs, lowest first; a text as the codes of its characters.

Limb == 65536

U64(l0, l1, l2, l3) == <<l0, l1, l2, l3>>

\* Eight bytes with the highest byte of the value first
Pack8IBigEndian(v) ==
    [i \in 1..8 |-> IF i % 2 = 1 THEN v[5 - ((i + 1) \div 2)] \div 256
                    ELSE v[5 - (i \div 2)] % 256]

\* member_8I, struct.pack("<Q", v): the eight bytes of a value, lowest first
Pack8I(v) ==
    [i \in 1..8 |-> IF i % 2 = 1 THEN v[(i + 1) \div 2] % 256 ELSE v[i \div 2] \div 256]

\* member_8I, struct.unpack("<Q", bytes): the value of eight bytes
Unpack8I(bytes) == [j \in 1..4 |-> bytes[(2 * j) - 1] + (256 * bytes[2 * j])]

\* struct.pack("<I", v): the four bytes of a value below 2^31, lowest first
Pack4I(v) == <<v % 256, (v \div 256) % 256, (v \div 65536) % 256, (v \div 16777216) % 256>>

Slice(q, lo, hi) == [i \in 1..(hi - lo + 1) |-> q[lo + i - 1]]

\* WIFF_chunk.magic, size and attributes setters on a header of bytes
SetMagic(bytes, v) == [i \in 1..24 |-> IF i <= 8 THEN v[i] ELSE bytes[i]]
SetSize(bytes, v) == [i \in 1..24 |-> IF i \in 9..16 THEN Pack8I(v)[i - 8] ELSE bytes[i]]
SetAttributes(bytes, v) ==
    [i \in 1..24 |-> IF i \in 17..24 THEN Pack8I(Unpack8I(v))[i - 16] ELSE bytes[i]]

\* WIFF_chunk.magic, size and attributes getters
GetMagic(bytes) == Slice(bytes, 1, 8)
GetSize(bytes) == Unpack8I(Slice(bytes, 9, 16))
GetAttributes(bytes) == Pack8I(Unpack8I(Slice(bytes, 17, 24)))

ZeroHeader == [i \in 1..24 |-> 0]

\* The tags WIFFINFO, WIFFWAVE and WIFFANNO as character codes
Magics == { <<87, 73, 70, 70, 73, 78, 70, 79>>, <<87, 73, 70, 70, 87, 65, 86, 69>>,
            <<87, 73, 70, 70, 65, 78, 78, 79>> }

Sizes == { U64(0, 0, 0, 0), U64(PageSize, 0, 0, 0), U64(0, 1, 0, 0), U64(513, 0, 2, 32768),
           U64(Limb - 1, Limb - 1, Limb - 1, Limb - 1) }

AttributeTuples == { <<0, 0, 0, 0, 0, 0, 0, 0>>, <<1, 0, 0, 0, 0, 0, 0, 0>>,
                     <<1, 2, 3, 4, 5, 6, 7, 8>>, <<255, 254, 253, 252, 251, 250, 249, 248>>,
                     <<48, 0, 0, 0, 1, 0, 0, 0>>, <<0, 255, 0, 255, 0, 255, 0, 255>> }

Compressions == {"None", "z", "Z", "b", "B", "x"}

SegmentIds == {0, 1, 258, 16909060, 2147483647}

HeaderCall(op, err, bytes, magic, size, attrs, compression, segmentid) ==
    [op |-> op, err |-> err, bytes |-> bytes, magic |-> magic, size |-> size,
     attrs |-> attrs, compression |-> compression, segmentid |-> segmentid]

\* chunk.magic = magic; chunk.size = size; chunk.attributes = attrs
WriteHeader(magic, size, attrs) ==
    /\ header' = HeaderCall("write", "ok",
                         SetAttributes(SetSize(SetMagic(header.bytes, magic), size), attrs),
                         magic, size, attrs, "None", 0)
    /\ UNCHANGED <<recvars, chunkvars, infovars, wavevars, ordervars, bitvec>>

\* The byte initchunk stores for a compression, 0 where it raises
CompressionByte(compression) ==
    IF compression = "None" THEN 48
    ELSE IF compression \in {"z", "Z"} THEN 90
    ELSE IF compression \in {"b", "B"} THEN 66
    ELSE 0

\* WIFFWAVE.initchunk(compression, segmentid)
initchunk(compression, segmentid) ==
    LET magic == <<87, 73, 70, 70, 87, 65, 86, 69>>
        size == U64(PageSize, 0, 0, 0)
        zeroed == SetAttributes(SetSize(SetMagic(header.bytes, magic), size),
                                <<0, 0, 0, 0, 0, 0, 0, 0>>)
        attrs == <<CompressionByte(compression), 0, 0, 0>> \o Pack4I(segmentid)
    IN  /\ header' = IF CompressionByte(compression) = 0
                  THEN HeaderCall("initchunk", "ValueError", zeroed, magic, size,
                                  <<0, 0, 0, 0, 0, 0, 0, 0>>, compression, segmentid)
                  ELSE HeaderCall("initchunk", "ok", SetAttributes(zeroed, attrs), magic, size,
                                  attrs, compression, segmentid)
        /\ UNCHANGED <<recvars, chunkvars, infovars, wavevars, ordervars, bitvec>>

\* bitfield.bitstobytes: the value of up to 8 bits, index 0 least significant
RECURSIVE bitstobytes(_)
bitstobytes(bits) == IF bits = <<>> THEN 0 ELSE Head(bits) + (2 * bitstobytes(Tail(bits)))

\* The bytes the loop of to_bytes collects: one for every 8 bits
ToBytesRet(bits) ==
    [k \in 1..(BitfieldWidth \div 8) |->
        bitstobytes([j \in 1..8 |-> bits[(8 * (k - 1)) + j - 1]])]

\* bitfield.to_bytes.  It ends in struct.pack, and bits.py imports functools
\* and operator only: the call raises NameError and returns no bytes
to_bytes(bits) == [err |-> "NameError", val |-> <<>>]

\* bitfield.bytestobits: the bits of each byte, lowest first, concatenated
bytestobits(bs) ==
    [b \in 0..((8 * Len(bs)) - 1) |-> (bs[(b \div 8) + 1] \div (2 ^ (b % 8))) % 2]

\* bitfield.from_bytes(bs).set_indices()
FromBytesIndices(bs) ==
    IF bs = <<>> THEN <<>> ELSE SetIndicesIn(bytestobits(bs), 0, (8 * Len(bs)) - 1)

\* The index lists a caller passes to initheader
IndexLists == ChannelLists \cup { <<0, 1, 255>>, <<255>>, <<7, 8, 9>> }

\* The presence vectors found in files: 32 bytes each
StoredVectors ==
    { [k \in 1..(BitfieldWidth \div 8) |-> IF k = 1 THEN 3 ELSE 0],
      [k \in 1..(BitfieldWidth \div 8) |-> IF k = 1 THEN 3 ELSE IF k = 32 THEN 128 ELSE 0],
      [k \in 1..(BitfieldWidth \div 8) |-> IF k \in {1, 2} THEN 129 ELSE 0],
      [k \in 1..(BitfieldWidth \div 8) |-> 255] }

BitCall(op, err, indices, bits, bytes, read) ==
    [op |-> op, err |-> err, indices |-> indices, bits |-> bits, bytes |-> bytes, read |-> read]

\* WIFFWAVE.initheader: b = bitfield(); b.clear(255); b.set(*indices);
\* bs = b.to_bytes(), then the bytes as WIFFWAVE.channels reads them back
PresenceVector(indices) ==
    LET bits == BitfieldSet(indices)
        bs == to_bytes(bits)
    IN  /\ bitvec' = BitCall("initheader", bs.err, indices, bits, bs.val, FromBytesIndices(bs.val))
        /\ UNCHANGED <<recvars, chunkvars, infovars, wavevars, ordervars, header>>

\* WIFFWAVE.channels on the 32 bytes of a stored header
ReadChannels(bs) ==
    /\ bitvec' = BitCall("channels", "ok", <<>>, bytestobits(bs), bs, FromBytesIndices(bs))
    /\ UNCHANGED <<recvars, chunkvars, infovars, wavevars, ordervars, header>>

InitCodec ==
    /\ files = <<FileEntry(1, 0, 0, 0, 0)>>
    /\ chunks = << <<NewChunk("WIFFINFO", 0, PageSize)>> >>
    /\ fsize = <<PageSize>>
    /\ num_frames = 0
    /\ num_annotations = 0
    /\ current_file = 0
    /\ current_segment = None
    /\ current_annotations = None
    /\ last = Call("new", "ok")
    /\ pages = <<>>
    /\ objs = <<>>
    /\ clast = Call("none", "ok")
    /\ info = None
    /\ disk = None
    /\ wave = None
    /\ header = HeaderCall("none", "ok", ZeroHeader, <<>>, U64(0, 0, 0, 0), <<>>, "None", 0)
    /\ bitvec = BitCall("none", "ok", <<>>, <<>>, <<>>, <<>>)
    /\ step = None

NextCodec ==
    \/ \E magic \in Magics : \E size \in Sizes : \E attrs \in AttributeTuples :
          WriteHeader(magic, size, attrs)
    \/ \E compression \in Compressions : \E segmentid \in SegmentIds :
          initchunk(compression, segmentid)
    \/ \E indices \in IndexLists : PresenceVector(indices)
    \/ \E bs \in StoredVectors : ReadChannels(bs)

SpecCodec == InitCodec /\ [][NextCodec]_vars

\* ------------------------------------------------------------------------
\* The order of the writes of one append.  A recording of one file with one
\* WaveBlock and one AnnoBlock, both current and both with room; add_frames
\* and add_annotation are taken one assignment at a time, in the order of
\* their statements.  seg and anno are the headers of the two blocks, file
\* the FileEntry of the file, infob the counters of the InfoBlock.

OrderVars == <<recvars, chunkvars, infovars, wavevars, codecvars>>

InitOrder ==
    /\ files = <<FileEntry(1, 0, 0, 0, 0)>>
    /\ chunks = << <<NewChunk("WIFFINFO", 0, PageSize)>> >>
    /\ fsize = <<PageSize>>
    /\ num_frames = 0
    /\ num_annotations = 0
    /\ current_file = 0
    /\ current_segment = None
    /\ current_annotations = None
    /\ last = Call("new", "ok")
    /\ pages = <<>>
    /\ objs = <<>>
    /\ clast = None
    /\ info = None
    /\ disk = None
    /\ wave = None
    /\ header = None
    /\ bitvec = None
    /\ step = [op |-> "none", err |-> "ok", typ |-> "", parms |-> {},
               pc |-> "idle", n |-> 0, frame_num |-> 0, ann_no |-> 0,
               info0 |-> 0, fidx |-> <<0, 0>>,
               seg |-> [records |-> 0, fidx_start |-> 0, fidx_end |-> 0],
               anno |-> [entries |-> 0, aidx_start |-> 0, aidx_end |-> 0,
                         fidx_first |-> 0, fidx_last |-> 0, num_annotations |-> 0],
               file |-> [fidx_start |-> 0, fidx_end |-> 0, aidx_start |-> 0, aidx_end |-> 0],
               infob |-> [num_frames |-> 0, num_annotations |-> 0]]

\* WIFFWAVE.add_frames up to the end of its loop: frame_num is read from the
\* InfoBlock and the records are assigned from slot fidx_end - fidx_start on
AddFramesRecords(n) ==
    /\ step.pc = "idle"
    /\ step.infob.num_frames + n <= MaxFrames
    /\ step' = [step EXCEPT !.op = "add_frames", !.err = "ok", !.typ = "", !.parms = {},
                            !.n = n,
                            !.frame_num = step.infob.num_frames,
                            !.info0 = step.infob.num_frames,
                            !.seg.records = (step.seg.fidx_end - step.seg.fidx_start) + n,
                            !.pc = IF step.infob.num_frames = 0 THEN "block_start"
                                   ELSE "block_end"]
    /\ UNCHANGED OrderVars

\* self.fidx_start = frame_num: the setter writes the block header ...
AddFramesBlockStart ==
    /\ step.pc = "block_start"
    /\ step' = [step EXCEPT !.seg.fidx_start = step.frame_num, !.pc = "file_start"]
    /\ UNCHANGED OrderVars

\* ... and copies the value to the FileEntry if it is earlier
AddFramesFileStart ==
    /\ step.pc = "file_start"
    /\ step' = [step EXCEPT !.file.fidx_start = Min(@, step.frame_num), !.pc = "block_end"]
    /\ UNCHANGED OrderVars

\* self.fidx_end = frame_num + len(frames): the block header ...
AddFramesBlockEnd ==
    /\ step.pc = "block_end"
    /\ step' = [step EXCEPT !.seg.fidx_end = step.frame_num + step.n, !.pc = "file_end"]
    /\ UNCHANGED OrderVars

\* ... and the FileEntry
AddFramesFileEnd ==
    /\ step.pc = "file_end"
    /\ step' = [step EXCEPT !.file.fidx_end = step.frame_num + step.n, !.pc = "frames_info"]
    /\ UNCHANGED OrderVars

\* self.wiff.num_frames = frame_num + len(frames)
AddFramesInfo ==
    /\ step.pc = "frames_info"
    /\ step' = [step EXCEPT !.infob.num_frames = step.frame_num + step.n, !.pc = "idle"]
    /\ UNCHANGED OrderVars

\* The types add_annotation is called with, "X" being none of the known
\* ones, and the keyword parameters a call passes
AnnoTypeArgs == {"C", "M", "D", "X"}
AnnoParms == SUBSET {"comment", "marker", "value"}

\* The parameters an annotation of type typ is made of
RequiredParms(typ) ==
    IF typ = "C" THEN {"comment"}
    ELSE IF typ = "M" THEN {"marker"}
    ELSE IF typ = "D" THEN {"marker", "value"}
    ELSE {}

\* A check of the type alone, which takes any parameters
AddAnnotationErrorTypeOnly(typ, parms) ==
    IF typ \in {"C", "M", "D"} THEN "ok" ELSE "KeyError"

\* The checks at the head of WIFFANNO.add_annotation
AddAnnotationError(typ, parms) ==
    IF typ = "C" THEN (IF "comment" \notin parms THEN "ValueError" ELSE "ok")
    ELSE IF typ = "M" THEN (IF "marker" \notin parms THEN "ValueError" ELSE "ok")
    ELSE IF typ = "D" THEN (IF "marker" \notin parms THEN "ValueError"
                            ELSE IF "value" \notin parms THEN "ValueError" ELSE "ok")
    ELSE "KeyError"

\* WIFFANNO.add_annotation up to the copy of the annotation data: the checks
\* of the type and its parameters, which end the call where they fail; then
\* the header is initialised on the first annotation, the jump table gets an
\* entry and the annotation is written.  A call that passes the checks is one
\* of exactly the parameters of its type
AddAnnotationRecord(typ, parms, fidx) ==
    /\ step.pc = "idle"
    /\ step.infob.num_annotations < MaxAnnos
    /\ AddAnnotationError(typ, parms) = "ok" => parms \subseteq RequiredParms(typ)
    /\ LET ann_no == step.anno.num_annotations
           first == [step.anno EXCEPT !.aidx_start = 0, !.aidx_end = 0,
                                      !.fidx_first = fidx[1], !.fidx_last = fidx[2]]
           hdr == IF ann_no = 0 THEN first ELSE step.anno
           err == AddAnnotationError(typ, parms)
           called == [step EXCEPT !.op = "add_annotation", !.err = err, !.typ = typ,
                                  !.parms = parms, !.ann_no = ann_no, !.fidx = fidx,
                                  !.info0 = step.infob.num_annotations]
       IN  step' = IF err # "ok" THEN called
                   ELSE [called EXCEPT !.anno = [hdr EXCEPT !.entries = @ + 1],
                                       !.pc = "anno_header"]
    /\ UNCHANGED OrderVars

\* The header of the AnnoBlock: aidx_end, fidx_first, fidx_last, aidx_start,
\* aidx_end again, num_annotations
AddAnnotationHeader ==
    /\ step.pc = "anno_header"
    /\ step' = [step EXCEPT !.anno.aidx_start = IF step.ann_no = 0 THEN 0 ELSE @,
                            !.anno.aidx_end = step.ann_no + 1,
                            !.anno.fidx_first = Min(@, step.fidx[1]),
                            !.anno.fidx_last = Max(@, step.fidx[2]),
                            !.anno.num_annotations = step.ann_no + 1,
                            !.pc = "anno_info"]
    /\ UNCHANGED OrderVars

\* self.wiff._chunks['INFO'].num_annotations += 1
AddAnnotationInfo ==
    /\ step.pc = "anno_info"
    /\ step' = [step EXCEPT !.infob.num_annotations = @ + 1, !.pc = "anno_file"]
    /\ UNCHANGED OrderVars

\* f.aidx_end, f.fidx_start and f.fidx_end of the FileEntry
AddAnnotationFile ==
    /\ step.pc = "anno_file"
    /\ step' = [step EXCEPT !.file.aidx_end = step.anno.aidx_end,
                            !.file.fidx_start = step.anno.fidx_first,
                            !.file.fidx_end = step.anno.fidx_last,
                            !.pc = "idle"]
    /\ UNCHANGED OrderVars

NextOrder ==
    \/ \E n \in 1..MaxBatch : AddFramesRecords(n)
    \/ AddFramesBlockStart
    \/ AddFramesFileStart
    \/ AddFramesBlockEnd
    \/ AddFramesFileEnd
    \/ AddFramesInfo
    \/ \E typ \in AnnoTypeArgs : \E parms \in AnnoParms :
         \E fidx \in FidxRanges \cup { <<0, 0>> } : AddAnnotationRecord(typ, parms, fidx)
    \/ AddAnnotationHeader
    \/ AddAnnotationInfo
    \/ AddAnnotationFile

SpecOrder == InitOrder /\ [][NextOrder]_vars

\* ------------------------------------------------------------------------
\* Properties

\* The frame indices / annotation indices a FileEntry range or a block covers
Range(lo, hi) == lo..(hi - 1)

WaveRefs == { _GetWAVE[i] : i \in 1..Len(_GetWAVE) }

\* Every frame index below num_frames lies in the range of exactly one
\* WaveBlock, and no range reaches outside [0, num_frames)
WaveBlocksTile ==
    /\ \A i \in 0..(num_frames - 1) :
          Cardinality({ r \in WaveRefs : i \in Range(Chunk(r).fidx_start, Chunk(r).fidx_end) }) = 1
    /\ \A r \in WaveRefs :
          /\ 0 <= Chunk(r).fidx_start
          /\ Chunk(r).fidx_start <= Chunk(r).fidx_end
          /\ Chunk(r).fidx_end <= num_frames

\* C1: growing a chunk that is not the last of its file leaves every byte of
\* its old extent but the size field where it was, and moves every page that
\* followed the chunk up by delta, whatever delta is.
C1_ResizePreservesData ==
    (/\ clast.op = "ResizeChunk"
     /\ clast.err = "ok"
     /\ clast.old_size > 0
     /\ clast.new_size > clast.old_size
     /\ Len(clast.before) * PageSize > clast.offset + clast.old_size)
    => LET first == (clast.offset \div PageSize) + 1
           end == (clast.offset + clast.old_size) \div PageSize
           d == (clast.new_size - clast.old_size) \div PageSize
       IN  /\ Len(pages) = Len(clast.before) + d
           /\ pages[first] = [clast.before[first] EXCEPT !.size = clast.new_size]
           /\ \A p \in (first + 1)..end : pages[p] = clast.before[p]
           /\ \A p \in (end + 1)..Len(clast.before) : pages[p + d] = clast.before[p]

\* C1 witness: a chunk grew by fewer bytes than followed it
C1_Witness ==
    /\ clast.op = "ResizeChunk"
    /\ clast.err = "ok"
    /\ clast.old_size > 0
    /\ clast.new_size > clast.old_size
    /\ Len(clast.before) * PageSize - (clast.offset + clast.old_size)
          > clast.new_size - clast.old_size

\* C2: while the WaveBlock ranges tile [0, num_frames), get_frame(i) returns
\* the i-th record added, read from the block whose range contains i, for
\* every i below num_frames.
C2_GetFrameReturnsRecord ==
    WaveBlocksTile
    => \A i \in 0..(num_frames - 1) :
          /\ get_frame(i).err = "ok"
          /\ get_frame(i).val = i + 1
          /\ i \in Range(Chunk(get_frame(i).ref).fidx_start, Chunk(get_frame(i).ref).fidx_end)

\* C3: the WaveBlock ranges are pairwise disjoint and tile [0, num_frames)
\* after every sequence of operations.
C3_WaveBlocksTile == WaveBlocksTile

\* C4: an add_frames of k >= 1 valid records stores them in the slots after
\* the block's last one, leaves the earlier slots alone, adds k to the block's
\* fidx_end and to num_frames, copies the block's fidx_end to the FileEntry,
\* and leaves fidx_end - fidx_start equal to the number of records stored.
C4_AddFramesAppends ==
    [][ (last'.op = "add_frames" /\ last'.err = "ok" /\ last'.k >= 1)
        => LET ref == current_segment
               c == Chunk(ref)
               c2 == chunks'[ref[1]][ref[2]]
               k == last'.k
               slot == c.fidx_end - c.fidx_start
           IN  /\ \A j \in 1..k : ReadSlot(c2, slot + j - 1) = num_frames + j
               /\ \A n \in 0..(slot - 1) : ReadSlot(c2, n) = ReadSlot(c, n)
               /\ c2.fidx_end = c.fidx_end + k
               /\ num_frames' = num_frames + k
               /\ files'[get_file_by_name(ref[1])].fidx_end = c2.fidx_end
               /\ c2.fidx_end - c2.fidx_start = Len(c2.records) ]_vars

\* C5: an add_frames of valid records succeeds also when there are more
\* records than free slots.
C5_AddFramesGrows ==
    (/\ last.op = "add_frames"
     /\ last.err # "AttributeError"
     /\ last.wellformed
     /\ last.k > last.avail)
    => last.err = "ok"

\* C6: setting frame_space to a val above the current value leaves the chunk
\* at the smallest multiple of 4096 whose frame_space is at least val.
C6_FrameSpaceReachesVal ==
    LET fsz == pages[(clast.offset \div PageSize) + 1].fsz
        size == HeaderSize(pages, clast.offset)
    IN  (/\ clast.op = "frame_space"
         /\ fsz # 0
         /\ clast.val > frame_space(clast.old_size, fsz))
        => /\ clast.err = "ok"
           /\ size % PageSize = 0
           /\ frame_space(size, fsz) >= clast.val
           /\ frame_space(size - PageSize, fsz) < clast.val

\* C7: with room for the records, add_frames succeeds exactly when every
\* record has one sample per channel of ceil(bit/8) bytes each; otherwise it
\* fails with ValueError and changes neither blocks, file table nor num_frames.
C7_AddFramesAcceptsCeilBytes ==
    [][ (/\ last'.op = "add_frames"
         /\ last'.err # "AttributeError"
         /\ last'.k <= last'.avail)
        => IF last'.wellformed
           THEN last'.err = "ok"
           ELSE /\ last'.err = "ValueError"
                /\ UNCHANGED <<files, chunks, num_frames>> ]_vars

\* C8: after a completed add_frames or add_annotation, num_frames counts the
\* frame indices in the union of the FileEntry frame ranges and
\* num_annotations the indices in the union of their annotation ranges.
C8_CountersMatchFileRanges ==
    (last.op \in {"add_frames", "add_annotation"} /\ last.err = "ok")
    => /\ num_frames = Cardinality(UNION { Range(files[i].fidx_start, files[i].fidx_end) :
                                             i \in 1..Len(files) })
       /\ num_annotations = Cardinality(UNION { Range(files[i].aidx_start, files[i].aidx_end) :
                                                  i \in 1..Len(files) })

\* C9: no step lowers the fidx_end or the aidx_end of a FileEntry.
C9_FileEntryEndsMonotonic ==
    [][ \A i \in 1..Len(files) :
           /\ files'[i].fidx_end >= files[i].fidx_end
           /\ files'[i].aidx_end >= files[i].aidx_end ]_vars

AnnoPositions ==
    { pos \in { _GetANNO[i] : i \in 1..Len(_GetANNO) } \X (1..MaxAnnos) :
         pos[2] <= Len(Chunk(pos[1]).annotations) }

AnnoAt(pos) == Chunk(pos[1]).annotations[pos[2]]

BlockIndex(ref) == CHOOSE i \in 1..Len(_GetANNO) : _GetANNO[i] = ref

\* C11: with a type T and / or an integer frame f, get_annotations returns
\* exactly the records of type T that have fidx_start <= f <= fidx_end, each
\* once, ordered by block and then by insertion; with no filter, all records.
C11_GetAnnotationsFilters ==
    \A typ \in TypArgs : \A fidx \in FidxIntArgs :
        LET r == get_annotations(typ, fidx)
            want == { pos \in AnnoPositions :
                        /\ typ.kind = "str" => AnnoAt(pos).type = typ.val
                        /\ fidx.kind = "int" => /\ AnnoAt(pos).fidx_start <= fidx.val
                                                /\ fidx.val <= AnnoAt(pos).fidx_end }
        IN  /\ r.err = "ok"
            /\ { r.val[k] : k \in 1..Len(r.val) } = want
            /\ Len(r.val) = Cardinality(want)
            /\ \A j, k \in 1..Len(r.val) :
                  j < k => \/ BlockIndex(r.val[j][1]) < BlockIndex(r.val[k][1])
                           \/ /\ r.val[j][1] = r.val[k][1]
                              /\ r.val[j][2] < r.val[k][2]

\* C11 witness: two AnnoBlocks hold one record each, of different types, and
\* a frame filter selects one of them while another frame selects none
C11_Witness ==
    /\ Len(_GetANNO) = 2
    /\ \A i \in 1..2 : Len(Chunk(_GetANNO[i]).annotations) = 1
    /\ Chunk(_GetANNO[1]).annotations[1].type # Chunk(_GetANNO[2]).annotations[1].type
    /\ Len(get_annotations(NoArg, IntArg(3)).val) = 1
    /\ Len(get_annotations(NoArg, NoArg).val) = 2
    /\ get_annotations(StrArg("M"), IntArg(0)).val = <<>>

\* C12: with an interval [a, b] as frame filter, get_annotations returns
\* exactly the records whose [fidx_start, fidx_end] intersects [a, b].
C12_GetAnnotationsInterval ==
    \A fidx \in FidxIntervalArgs :
        LET r == get_annotations(NoArg, fidx)
            want == { pos \in AnnoPositions :
                        /\ AnnoAt(pos).fidx_start <= fidx.stop
                        /\ fidx.start <= AnnoAt(pos).fidx_end }
        IN  want # {} => /\ r.err = "ok"
                         /\ { r.val[k] : k \in 1..Len(r.val) } = want

RECURSIVE ChunksOnDisk(_, _)
ChunksOnDisk(pgs, off) ==
    IF off >= Len(pgs) * PageSize THEN {}
    ELSE IF HeaderSize(pgs, off) = 0 THEN {}
    ELSE {off} \cup ChunksOnDisk(pgs, off + HeaderSize(pgs, off))

\* The page of a chunk (counted from its header page, 0) that holds the last
\* byte written to it: the end of its 72 header bytes and len records
LastWrittenPage(hdr) ==
    (ChunkHeaderLen + WaveHeaderLen + (hdr.len * hdr.fsz) - 1) \div PageSize

\* C14: every chunk of the file has a size field that is a positive multiple
\* of 4096, and every page of it past the one holding its last record is
\* zero - after a chunk was created and after any resize.
C14_ChunkTailsZero ==
    \A off \in ChunksOnDisk(pages, 0) :
       LET first == (off \div PageSize) + 1
           hdr == pages[first]
       IN  /\ hdr.size > 0
           /\ hdr.size % PageSize = 0
           /\ \A p \in (first + LastWrittenPage(hdr) + 1)..(first + (hdr.size \div PageSize) - 1) :
                 /\ p <= Len(pages)
                 /\ pages[p] = ZeroPage

\* The offsets a header can be at
PageOffsets == { p * PageSize : p \in 0..(Len(pages) - 1) }

\* S is a run of headers from offset 0 on, each at the end of the one before;
\* the run goes on to the end of the file or stops at a header of size 0
IsChain(S) ==
    /\ 0 \in S
    /\ \A o \in S : o = 0 \/ \E q \in S : HeaderSize(pages, q) > 0 /\ q + HeaderSize(pages, q) = o
    /\ \A o \in S : \/ HeaderSize(pages, o) = 0
                    \/ o + HeaderSize(pages, o) = Len(pages) * PageSize
                    \/ o + HeaderSize(pages, o) \in S

\* C15: on a file that is a run of n chunks of sizes above 0, FindChunks
\* returns the n header offsets 0, s0, s0+s1, ... in this order; on a file
\* whose run of headers meets a size of 0 it fails and returns no list.
C15_FindChunksWalks ==
    \A S \in SUBSET PageOffsets :
       IsChain(S)
       => LET r == FindChunks(pages)
          IN  IF \E o \in S : HeaderSize(pages, o) = 0
              THEN r.err # "ok" /\ r.chunks = <<>>
              ELSE /\ r.err = "ok"
                   /\ Len(r.chunks) = Cardinality(S)
                   /\ r.chunks[1] = 0
                   /\ \A i \in 1..(Len(r.chunks) - 1) :
                         r.chunks[i + 1] = r.chunks[i] + HeaderSize(pages, r.chunks[i])
                   /\ { r.chunks[i] : i \in 1..Len(r.chunks) } = S

\* C15 witness: a file of three chunks, one of them grown, has been walked
C15_Witness ==
    /\ clast.op = "open"
    /\ clast.err = "ok"
    /\ Len(objs) = 3
    /\ \E i \in 1..3 : HeaderSize(pages, objs[i]) > 2 * PageSize
    /\ \E S \in SUBSET PageOffsets : IsChain(S) /\ Cardinality(S) = 3

\* A file whose run of headers meets a size of 0 has been walked
ZeroSizeMet ==
    /\ clast.op = "open"
    /\ clast.err = "ValueError"

\* C16: get_frame(i) fails with KeyError whenever no WaveBlock range
\* [fidx_start, fidx_end) contains i, so it never returns a slot that no
\* record was written to.
C16_GetFrameNotFound ==
    \A i \in 0..(MaxFrames + 1) :
       (\A r \in WaveRefs : i \notin Range(Chunk(r).fidx_start, Chunk(r).fidx_end))
       => get_frame(i).err = "KeyError"

\* C17: after any add_file calls the entries of both jump tables are packed,
\* the end of the last file record lies within the chunk (24-byte chunk
\* header included), and no add_file fails for want of room, the chunk being
\* grown by a page whenever needed.
C17_JumpTablesPacked ==
    /\ info.err = "ok"
    /\ \A i \in 1..(Len(info.channels_jumptable) - 1) :
          info.channels_jumptable[i][2] = info.channels_jumptable[i + 1][1]
    /\ \A i \in 1..(Len(info.files_jumptable) - 1) :
          info.files_jumptable[i][2] = info.files_jumptable[i + 1][1]
    /\ ChunkHeaderLen + info.index_file_end <= info.size

\* C18: every channel of a block is stored in ceil(bit/8) bytes, and the
\* stride initheader sets for the records, the frame_size that frame_space
\* divides by and the stride of the serializer all equal the sum of these
\* widths.
C18_StridesAgree ==
    LET widths == [i \in 1..Len(wave.bits) |-> CeilBytes(wave.bits[i])]
    IN  /\ wave.chan_size = widths
        /\ wave.records_size = SumSeq(widths) \/ wave.bits = <<>>
        /\ FrameSizeOf(wave.bits) = SumSeq(widths)
        /\ wave._frame_size = SumSeq(widths)

\* C19: new with 257 or more channels fails, and it leaves the file it names
\* as it was: it creates no file and writes no byte.
C19_NewRejectsChannelsFirst ==
    (disk.op = "new" /\ disk.nchans > BitfieldWidth)
    => /\ disk.err # "ok"
       /\ disk.len = disk.was
       /\ disk.was = Beyond => disk.magic = ""

\* What of the InfoBlock is in the file: everything but the record of the call
InfoBytes(i) == [i EXCEPT !.op = "", !.val = None, !.err = ""]

\* The bytes between the two indices that delimit a field of the InfoBlock
FieldLen(i, field) ==
    IF field = "start" THEN i.index_end - i.index_start
    ELSE IF field = "end" THEN i.index_description - i.index_end
    ELSE i.index_channels - i.index_description

\* C20: assigning start, end or description a value whose length is not that
\* of the stored field fails and leaves the InfoBlock as it was; assigning a
\* value of that length replaces the field and nothing else.
C20_SettersKeepLength ==
    [][ info'.op \in {"start", "end", "description"}
        => IF info'.val.len # FieldLen(info, info'.op)
           THEN /\ info'.err # "ok"
                /\ InfoBytes(info') = InfoBytes(info)
           ELSE /\ info'.err = "ok"
                /\ info'[info'.op] = info'.val
                /\ InfoBytes(info') = [InfoBytes(info) EXCEPT ![info'.op] = info'.val] ]_vars

\* C20 witness: with files in the table, a description of the stored length
\* has replaced the stored one after a date of another length was refused
C20_Witness ==
    /\ info.op = "description"
    /\ info.err = "ok"
    /\ info.description = info.val
    /\ info.description.id # 0
    /\ info.start.id = 0
    /\ info.end.id # 0
    /\ Len(info.files_jumptable) > 0

\* C21: new on a name that no file has yields a recording: the call succeeds
\* and leaves a file of 4096 bytes that begins with a WIFFINFO chunk header,
\* from which the counters, the one FileEntry and the given texts read back.
C21_NewYieldsRecording ==
    (disk.op = "new" /\ disk.was = Beyond /\ disk.nchans <= BitfieldWidth)
    => /\ disk.err = "ok"
       /\ disk.len = PageSize
       /\ disk.magic = "WIFFINFO"

\* C22: a chunk header reads back as the tag, size and attribute bytes that
\* were written, attribute byte i lies at header offset 16 + i, and after
\* initchunk byte 16 is the compression tag and bytes 20..23 are the segment
\* id as a little-endian 32-bit value.
C22_HeaderRoundTrip ==
    (header.op \in {"write", "initchunk"} /\ header.err = "ok")
    => /\ GetMagic(header.bytes) = header.magic
       /\ GetSize(header.bytes) = header.size
       /\ GetAttributes(header.bytes) = header.attrs
       /\ \A i \in 0..7 : header.bytes[16 + i + 1] = header.attrs[i + 1]
       /\ \A i \in 0..7 : header.bytes[8 + i + 1] =
             (IF i % 2 = 0 THEN header.size[(i \div 2) + 1] % 256 ELSE header.size[(i \div 2) + 1] \div 256)
       /\ header.op = "initchunk"
          => /\ header.bytes[17] = CompressionByte(header.compression)
             /\ header.bytes[21] + (256 * header.bytes[22]) + (65536 * header.bytes[23])
                   + (16777216 * header.bytes[24]) = header.segmentid

\* C22 witness: a header with a size above 2^48 and eight different
\* attribute bytes was written over an earlier one
C22_Witness ==
    /\ header.op = "write"
    /\ header.size[4] > 0
    /\ Cardinality({ header.attrs[i] : i \in 1..8 }) = 8
    /\ GetAttributes(header.bytes) = header.attrs

\* A segment id above 2^24 was stored by initchunk
SegmentIdStored ==
    /\ header.op = "initchunk"
    /\ header.err = "ok"
    /\ header.segmentid > 16777216
    /\ header.bytes[17] = 90

\* The indices of a list, as a set
IndexSet(indices) == { indices[i] : i \in 1..Len(indices) }

\* C23: the presence vector initheader builds for a set S of indices is 32
\* bytes in which bit (i mod 8) of byte (i div 8) is set iff i is in S, and
\* reading these bytes back gives S in ascending order.
C23_PresenceRoundTrip ==
    bitvec.op = "initheader"
    => /\ bitvec.err = "ok"
       /\ Len(bitvec.bytes) = 32
       /\ \A i \in 0..(BitfieldWidth - 1) :
             ((bitvec.bytes[(i \div 8) + 1] \div (2 ^ (i % 8))) % 2 = 1)
                <=> i \in IndexSet(bitvec.indices)
       /\ IndexSet(bitvec.read) = IndexSet(bitvec.indices)
       /\ \A i \in 1..(Len(bitvec.read) - 1) : bitvec.read[i] < bitvec.read[i + 1]

\* Stored bytes read back as the ascending indices of their set bits, and
\* the bytes to_bytes collects before it packs them have the bits of the
\* claimed layout
PresenceLayoutHolds ==
    /\ bitvec.op = "channels"
       => /\ \A i \in 0..(BitfieldWidth - 1) :
                ((bitvec.bytes[(i \div 8) + 1] \div (2 ^ (i % 8))) % 2 = 1)
                   <=> i \in IndexSet(bitvec.read)
          /\ \A i \in 1..(Len(bitvec.read) - 1) : bitvec.read[i] < bitvec.read[i + 1]
    /\ bitvec.op = "initheader"
       => FromBytesIndices(ToBytesRet(bitvec.bits)) = SetIndices(bitvec.bits)

\* C24: after ResizeChunk grew a chunk that other chunks follow, every other
\* chunk object of the chunk index, which addressed a header before the
\* resize, still addresses the header of the same chunk: the page at its
\* offset reads as it did before the resize.
C24_ObjectsStayValid ==
    (/\ clast.op = "ResizeChunk"
     /\ clast.err = "ok"
     /\ clast.new_size > clast.old_size
     /\ FindChunks(clast.before).err = "ok"
     /\ FindChunks(clast.before).chunks = objs
     /\ Len(clast.before) * PageSize > clast.offset + clast.old_size)
    => \A i \in 1..Len(objs) :
          objs[i] # clast.offset
          => pages[(objs[i] \div PageSize) + 1] = clast.before[(objs[i] \div PageSize) + 1]

\* C25: the chunks of a backing file lie back to back - the first chunk
\* object at offset 0, each next one at the offset + size of the one before,
\* the last one ending where the file ends - and FindChunks on the file
\* returns exactly the offsets of the chunk objects held for it, after any
\* sequence of chunk creations and chunk resizes.
C25_ChunksBackToBack ==
    /\ Len(objs) > 0
    /\ objs[1] = 0
    /\ \A i \in 1..(Len(objs) - 1) : objs[i + 1] = objs[i] + HeaderSize(pages, objs[i])
    /\ objs[Len(objs)] + HeaderSize(pages, objs[Len(objs)]) = Len(pages) * PageSize
    /\ FindChunks(pages).err = "ok"
    /\ FindChunks(pages).chunks = objs

\* Where no chunk is resized the chunks of every file lie back to back and
\* fill the file, a WaveBlock taking one page and an AnnoBlock two
BackToBackWithoutResize ==
    \A f \in 1..Len(chunks) :
       LET cs == chunks[f]
       IN  Len(cs) > 0
           => /\ cs[1].offset = 0
              /\ \A i \in 1..(Len(cs) - 1) : cs[i + 1].offset = cs[i].offset + cs[i].size
              /\ cs[Len(cs)].offset + cs[Len(cs)].size = fsize[f]
              /\ \A i \in 1..Len(cs) :
                    cs[i].size = (IF cs[i].magic = "WIFFANNO" THEN 2 * PageSize ELSE PageSize)

\* C26: within one add_frames call and within one add_annotation call the
\* block is written first, then the FileEntry, then the counter of the
\* InfoBlock: in no state of a call is the counter already advanced while
\* the FileEntry does not yet hold the new end.
C26_CounterWrittenLast ==
    /\ (step.op = "add_frames" /\ step.infob.num_frames # step.info0)
       => /\ step.file.fidx_end = step.frame_num + step.n
          /\ step.seg.fidx_end = step.frame_num + step.n
    /\ (step.op = "add_annotation" /\ step.infob.num_annotations # step.info0)
       => /\ step.file.aidx_end = step.ann_no + 1
          /\ step.anno.aidx_end = step.ann_no + 1

\* add_frames keeps the order: its counter moves only after the block and
\* the FileEntry hold the new end
AddFramesCounterLast ==
    (step.op = "add_frames" /\ step.infob.num_frames # step.info0)
    => /\ step.file.fidx_end = step.frame_num + step.n
       /\ step.seg.fidx_end = step.frame_num + step.n

\* C27: ResizeChunk with a new_size that is no multiple of 4096, or that is
\* below the current size, ends in an error and leaves the length of the
\* file, every page of it and the size field of the chunk as they were; with
\* new_size equal to the current size it succeeds and changes nothing.
C27_RejectedResizeChangesNothing ==
    clast.op = "ResizeChunk"
    => /\ (clast.new_size % PageSize # 0 \/ clast.new_size < clast.old_size)
          => /\ clast.err # "ok"
             /\ Len(pages) = Len(clast.before)
             /\ pages = clast.before
             /\ HeaderSize(pages, clast.offset) = clast.old_size
       /\ (clast.new_size % PageSize = 0 /\ clast.new_size = clast.old_size)
          => /\ clast.err = "ok"
             /\ pages = clast.before

\* C27 witness: a chunk of a file of several pages was asked to shrink
C27_Witness ==
    /\ clast.op = "ResizeChunk"
    /\ clast.err # "ok"
    /\ clast.new_size % PageSize = 0
    /\ clast.new_size < clast.old_size
    /\ clast.new_size > 0
    /\ Len(clast.before) > 1

\* What an append writes to: the two blocks, the FileEntry and the InfoBlock
Written(st) == <<st.seg, st.anno, st.file, st.infob>>

\* C28: add_annotation with an unknown type, a Comment without text, a Marker
\* without a marker, or a MarkerWithValue lacking marker or value ends in an
\* error before anything is written: the header and the records of the
\* AnnoBlock, the FileEntry and InfoBlock.num_annotations are unchanged.
C28_InvalidAnnotationWritesNothing ==
    [][(/\ step.pc = "idle"
        /\ step'.op = "add_annotation"
        /\ \/ step'.typ \notin {"C", "M", "D"}
           \/ step'.typ = "C" /\ "comment" \notin step'.parms
           \/ step'.typ = "M" /\ "marker" \notin step'.parms
           \/ step'.typ = "D" /\ ~({"marker", "value"} \subseteq step'.parms))
       => /\ step'.err # "ok"
          /\ step'.pc = "idle"
          /\ Written(step') = Written(step)]_vars

\* C28 witness: a MarkerWithValue without its value was rejected on a block
\* that holds an annotation
C28_Witness ==
    /\ step.op = "add_annotation"
    /\ step.pc = "idle"
    /\ step.err = "ValueError"
    /\ step.typ = "D"
    /\ step.parms = {"marker"}
    /\ step.anno.num_annotations > 0
    /\ step.infob.num_annotations > 0

\* The recording as an append can change it: FileEntries, chunk lists and
\* chunk contents, file lengths, counters and the three cursors
Recording == <<files, chunks, fsize, num_frames, num_annotations, current_file,
               current_segment, current_annotations>>

\* C29: new_segment and new_annotations end in an error where no current file
\* is set, add_frame and add_frames where no current segment is set, and
\* add_annotation where no current annotation block is set; each of these
\* calls leaves every file, every chunk list and every cursor as it was.
C29_NoCursorNoChange ==
    [][/\ (last'.op \in {"new_segment", "new_annotations"} /\ current_file = 0)
          => (last'.err # "ok" /\ Recording' = Recording)
       /\ (last'.op \in {"add_frame", "add_frames"} /\ current_segment = None)
          => (last'.err # "ok" /\ Recording' = Recording)
       /\ (last'.op = "add_annotation" /\ current_annotations = None)
          => (last'.err # "ok" /\ Recording' = Recording)]_vars

\* C29 witness: a recording that holds frames and has no current segment
\* refused a single frame
C29_Witness ==
    /\ last.op = "add_frame"
    /\ last.err = "ValueError"
    /\ current_segment = None
    /\ current_file # 0
    /\ num_frames > 0

\* C30: on a recording whose WaveBlocks tile [0, num_frames), iter_frames of
\* (a, b) yields exactly the frames a, a+1, ..., min(b, num_frames - 1) in
\* this order, each once, across blocks and files, and then ends normally;
\* get_frames reports stop = start + (number of frames returned) - 1.
C30_IterFramesYieldsRange ==
    WaveBlocksTile
    => \A v \in FrameIntervals :
          LET n == Max(0, Min(v[2], num_frames - 1) - v[1] + 1)
              r == iter_frames(v[1], v[2])
              g == get_frames(v[1], v[2])
          IN  /\ r.frames = [k \in 1..n |-> v[1] + k]
              /\ r.err = "ok"
              /\ g.err = "ok"
              /\ g.frames = r.frames
              /\ g.stop = v[1] + n - 1

\* What iter_frames yields before it ends is the range of the claim, and it
\* ends normally where the interval reaches past the last frame
IterFramesYieldedRange ==
    WaveBlocksTile
    => \A v \in FrameIntervals :
          LET n == Max(0, Min(v[2], num_frames - 1) - v[1] + 1)
              r == iter_frames(v[1], v[2])
          IN  /\ r.frames = [k \in 1..n |-> v[1] + k]
              /\ (v[2] >= num_frames \/ v[1] >= num_frames) => r.err = "ok"
              /\ (v[2] < num_frames) => r.err = "RuntimeError"

====
